---------------------------- MODULE Spec2Model ----------------------------
(***************************************************************************)
(* ctap: a colouriser for TAP (Test-Anything-Protocol) output.             *)
(*                                                                         *)
(* The model follows src/main.go: the line classifier (parseLine and the   *)
(* regular expressions it tries in order), the per-line step of runCLI's   *)
(* scanner loop (cprintln, then the switch on the line type) and the       *)
(* end-of-stream finalization (printAppends, printSummary).                *)
(*                                                                         *)
(* A line of text is a sequence of characters, each character a string of  *)
(* its own (<<"o","k">> is the line `ok`).  The output is the sequence of  *)
(* Println/Printf calls made on the colour printers of the colour map.     *)
(***************************************************************************)
EXTENDS Integers, Sequences, FiniteSets, TLC

(***************************************************************************)
(* Characters.  A character that has no plain spelling is named by its     *)
(* code point: TAB is U+0009, NBSP is U+00A0 (a Unicode separator that is  *)
(* no ASCII space).                                                        *)
(***************************************************************************)
TAB == "U+0009"
LF == "U+000A"
FF == "U+000C"
CR == "U+000D"
NBSP == "U+00A0"

Digit == {"0", "1", "2", "3", "4", "5", "6", "7", "8", "9"}

\* \pZ: the Unicode separator category, Zs (the space, U+00A0, U+1680,
\* U+2000..U+200A, U+202F, U+205F, U+3000), Zl (U+2028) and Zp (U+2029); a
\* tab is not in it.
ClassZ ==
    {" ", NBSP, "U+1680", "U+2000", "U+2001", "U+2002", "U+2003", "U+2004",
     "U+2005", "U+2006", "U+2007", "U+2008", "U+2009", "U+200A", "U+2028",
     "U+2029", "U+202F", "U+205F", "U+3000"}

\* \s: [\t\n\f\r ]
ClassS == {TAB, LF, FF, CR, " "}

(***************************************************************************)
(* Regular expressions, with the leftmost-first (backtracking priority)    *)
(* semantics of Go's regexp package.  Match(r, s, i, caps) is the sequence *)
(* of all the ways r matches s from position i, in the order a             *)
(* backtracking matcher tries them: each is the position after the match   *)
(* and the capture groups set.  The match the package reports is the       *)
(* first.                                                                  *)
(***************************************************************************)
\* A character class [...] and a negated one [^...]; a dot is [^\n] (no
\* line the scanner returns holds a newline).
Chr(S) == [t |-> "chr", set |-> S, neg |-> FALSE]
Lit(c) == [t |-> "chr", set |-> {c}, neg |-> FALSE]
NotChr(S) == [t |-> "chr", set |-> S, neg |-> TRUE]
AnyChar == [t |-> "chr", set |-> {LF}, neg |-> TRUE]
Bol == [t |-> "bol"]
Eol == [t |-> "eol"]
Cat(rs) == [t |-> "cat", rs |-> rs]
Alt(rs) == [t |-> "alt", rs |-> rs]
Grp(n, r) == [t |-> "grp", n |-> n, r |-> r]
Str(cs) == [t |-> "cat", rs |-> [i \in 1..Len(cs) |-> Lit(cs[i])]]
\* x* x+ x? (greedy) and x*? (lazy); max = -1 is no upper limit.
Star(r) == [t |-> "rep", r |-> r, min |-> 0, max |-> -1, greedy |-> TRUE]
Plus(r) == [t |-> "rep", r |-> r, min |-> 1, max |-> -1, greedy |-> TRUE]
Opt(r) == [t |-> "rep", r |-> r, min |-> 0, max |-> 1, greedy |-> TRUE]
LazyStar(r) == [t |-> "rep", r |-> r, min |-> 0, max |-> -1, greedy |-> FALSE]
\* x{k}
Times(r, k) == [t |-> "rep", r |-> r, min |-> k, max |-> k, greedy |-> TRUE]

\* The most capture groups a pattern of the program has (reTest).
NumGroups == 5
NoCaps == [n \in 1..NumGroups |-> <<>>]

\* A repetition after one pass of its body.
Again(r) ==
    [r EXCEPT !.min = IF @ > 0 THEN @ - 1 ELSE 0,
              !.max = IF @ = -1 THEN -1 ELSE @ - 1]

\* Bookkeeping nodes of the matcher: "each" continues with r from each of the
\* matches res[j..k], in order (those that moved past position from, when
\* moved is set); "cap" sets group n, which began at position from.
Each(res, r, moved, from) ==
    [t |-> "each", res |-> res, j |-> 1, k |-> Len(res), r |-> r,
     moved |-> moved, from |-> from]
SetCap(n, from) == [t |-> "cap", n |-> n, from |-> from]

\* The number of characters of s from position i on that are in the class
\* c, max of them at most (max = -1 is no limit).
RunLength(c, s, i, max) ==
    LET most == IF max = -1 \/ max > Len(s) - i + 1 THEN Len(s) - i + 1
                ELSE max
    IN Cardinality({n \in 1..most :
                      \A j \in i..(i + n - 1) : (s[j] \in c.set) # c.neg})

RECURSIVE Match(_, _, _, _)
Match(r, s, i, caps) ==
    CASE r.t = "chr" ->
           IF i <= Len(s) /\ ((s[i] \in r.set) # r.neg)
           THEN <<[pos |-> i + 1, caps |-> caps]>> ELSE <<>>
      [] r.t = "bol" -> IF i = 1 THEN <<[pos |-> i, caps |-> caps]>> ELSE <<>>
      [] r.t = "eol" ->
           IF i = Len(s) + 1 THEN <<[pos |-> i, caps |-> caps]>> ELSE <<>>
      [] r.t = "cat" ->
           IF r.rs = <<>> THEN <<[pos |-> i, caps |-> caps]>>
           ELSE Match(Each(Match(Head(r.rs), s, i, caps),
                           [r EXCEPT !.rs = Tail(@)], FALSE, i),
                      s, i, caps)
      [] r.t = "alt" ->
           IF r.rs = <<>> THEN <<>>
           ELSE Match(Head(r.rs), s, i, caps)
                  \o Match([r EXCEPT !.rs = Tail(@)], s, i, caps)
      [] r.t = "grp" ->
           Match(Each(Match(r.r, s, i, caps), SetCap(r.n, i), FALSE, i),
                 s, i, caps)
      [] r.t = "cap" ->
           <<[pos |-> i,
              caps |-> [caps EXCEPT ![r.n] = SubSeq(s, r.from, i - 1)]]>>
      [] r.t = "rep" /\ r.r.t = "chr" ->
           \* a class repeated: the run of characters in the class, every
           \* length from r.min up to it, the longest first when greedy
           LET run == RunLength(r.r, s, i, r.max)
           IN IF run < r.min THEN <<>>
              ELSE [n \in 1..(run - r.min + 1) |->
                      [pos |-> IF r.greedy THEN i + run - n + 1
                               ELSE i + r.min + n - 1,
                       caps |-> caps]]
      [] r.t = "rep" /\ r.r.t # "chr" ->
           IF r.greedy
           THEN (IF r.max = 0 THEN <<>>
                 ELSE Match(Each(Match(r.r, s, i, caps), Again(r), TRUE, i),
                            s, i, caps))
                  \o (IF r.min = 0 THEN <<[pos |-> i, caps |-> caps]>>
                      ELSE <<>>)
           ELSE (IF r.min = 0 THEN <<[pos |-> i, caps |-> caps]>> ELSE <<>>)
                  \o (IF r.max = 0 THEN <<>>
                      ELSE Match(Each(Match(r.r, s, i, caps), Again(r),
                                      TRUE, i),
                                 s, i, caps))
      [] r.t = "each" ->
           IF r.j > r.k THEN <<>>
           ELSE IF r.j = r.k
           THEN (IF r.moved /\ r.res[r.j].pos <= r.from THEN <<>>
                 ELSE Match(r.r, s, r.res[r.j].pos, r.res[r.j].caps))
           ELSE Match([r EXCEPT !.k = (r.j + r.k) \div 2], s, i, caps)
                  \o Match([r EXCEPT !.j = (r.j + r.k) \div 2 + 1], s, i, caps)

\* The leftmost match of r in s at or after position from: ok is FALSE when
\* there is none (Go's nil), else start..end-1 is the match, caps its groups.
RECURSIVE Find(_, _, _)
Find(r, s, from) ==
    IF from > Len(s) + 1
    THEN [ok |-> FALSE, start |-> 0, end |-> 0, caps |-> NoCaps]
    ELSE LET res == Match(r, s, from, NoCaps)
         IN IF res # <<>>
            THEN [ok |-> TRUE, start |-> from, end |-> res[1].pos,
                  caps |-> res[1].caps]
            ELSE Find(r, s, from + 1)

FindStringSubmatch(r, s) == Find(r, s, 1)

MatchString(r, s) == Find(r, s, 1).ok

\* Every non-overlapping match of r in s replaced by repl (no pattern of the
\* program's replacements has a $ in it).
RECURSIVE ReplaceFrom(_, _, _, _)
ReplaceFrom(r, s, repl, from) ==
    LET m == Find(r, s, from)
    IN IF ~m.ok THEN SubSeq(s, from, Len(s))
       ELSE IF m.end > m.start
            THEN SubSeq(s, from, m.start - 1) \o repl
                   \o ReplaceFrom(r, s, repl, m.end)
            ELSE IF m.start > Len(s)
                 THEN SubSeq(s, from, Len(s)) \o repl
                 ELSE SubSeq(s, from, m.start - 1) \o repl \o <<s[m.start]>>
                        \o ReplaceFrom(r, s, repl, m.start + 1)

ReplaceAllString(r, s, repl) == ReplaceFrom(r, s, repl, 1)


(***************************************************************************)
(* The program's constants and patterns.                                   *)
(***************************************************************************)
testFailExitCode == 3
planFailExitCode == 4
bailExitCode == 5

\* U+2713 and U+2717, one character each.
glyphOK == "U+2713"
glyphNOK == "U+2717"

\* lineType: iota, from 0.
tapUnknown == 0
tapVersion == 1
tapPlan == 2
tapTestOK == 3
tapTestNOK == 4
tapDiagnostic == 5
tapBail == 6
tapSummaryOK == 7
tapSummaryNOK == 8
tapPlanNOK == 9

lineType == tapUnknown..tapPlanNOK

sOk == <<"o", "k">>
sNotOk == <<"n", "o", "t", " ", "o", "k">>

\* ^TAP version (\d+)
reVersion ==
    Cat(<<Bol,
          Str(<<"T", "A", "P", " ", "v", "e", "r", "s", "i", "o", "n", " ">>),
          Grp(1, Plus(Chr(Digit)))>>)

\* ^(\d+)..(\d+)\s*(?:#\s*(.*?)\s*)?$   (the two dots are unescaped: each
\* matches any character)
rePlan ==
    Cat(<<Bol, Grp(1, Plus(Chr(Digit))), AnyChar, AnyChar,
          Grp(2, Plus(Chr(Digit))), Star(Chr(ClassS)),
          Opt(Cat(<<Lit("#"), Star(Chr(ClassS)), Grp(3, LazyStar(AnyChar)),
                    Star(Chr(ClassS))>>)),
          Eol>>)

\* ^(ok|not ok)(?:\pZ+(\d+))?(?:\pZ+([^#]+))?(?:\pZ+(#\pZ*(.*?)))?\pZ*?$
reTest ==
    Cat(<<Bol, Grp(1, Alt(<<Str(sOk), Str(sNotOk)>>)),
          Opt(Cat(<<Plus(Chr(ClassZ)), Grp(2, Plus(Chr(Digit)))>>)),
          Opt(Cat(<<Plus(Chr(ClassZ)), Grp(3, Plus(NotChr({"#"})))>>)),
          Opt(Cat(<<Plus(Chr(ClassZ)),
                    Grp(4, Cat(<<Lit("#"), Star(Chr(ClassZ)),
                                 Grp(5, LazyStar(AnyChar))>>))>>)),
          LazyStar(Chr(ClassZ)), Eol>>)

\* A bug: the pattern of a diagnostic is not anchored.
reDiagnosticAnywhere == Cat(<<Lit("#")>>)

\* ^#
reDiagnostic == Cat(<<Bol, Lit("#")>>)

\* ^Bail out!(?:\pZ*(.*?))?\pZ*$
reBail ==
    Cat(<<Bol, Str(<<"B", "a", "i", "l", " ", "o", "u", "t", "!">>),
          Opt(Cat(<<Star(Chr(ClassZ)), Grp(1, LazyStar(AnyChar))>>)),
          Star(Chr(ClassZ)), Eol>>)

\* ^(ok|not ok)\pZ*
reTestPrefix ==
    Cat(<<Bol, Grp(1, Alt(<<Str(sOk), Str(sNotOk)>>)), Star(Chr(ClassZ))>>)

(***************************************************************************)
(* Numbers.  Go's int is 64 bits wide here (two's complement), more than   *)
(* an integer of the model checker holds, so a Go int is held as the sign  *)
(* and the decimal digits of its magnitude: [neg |-> FALSE, mag |-> <<1,   *)
(* 2>>] is 12, the magnitude of 0 is <<>>.  A magnitude has no leading 0   *)
(* and 0 is not negative, so two ints are equal iff their records are.     *)
(*                                                                         *)
(* First the arithmetic of natural numbers as sequences of digits, the     *)
(* most significant first.                                                 *)
(***************************************************************************)
DigitVal(c) ==
    CASE c = "0" -> 0 [] c = "1" -> 1 [] c = "2" -> 2 [] c = "3" -> 3
      [] c = "4" -> 4 [] c = "5" -> 5 [] c = "6" -> 6 [] c = "7" -> 7
      [] c = "8" -> 8 [] c = "9" -> 9

DigitChr(n) ==
    CASE n = 0 -> "0" [] n = 1 -> "1" [] n = 2 -> "2" [] n = 3 -> "3"
      [] n = 4 -> "4" [] n = 5 -> "5" [] n = 6 -> "6" [] n = 7 -> "7"
      [] n = 8 -> "8" [] n = 9 -> "9"

\* ds without its leading zeros.
NatTrim(ds) ==
    IF \A i \in 1..Len(ds) : ds[i] = 0 THEN <<>>
    ELSE SubSeq(ds, CHOOSE i \in 1..Len(ds) :
                      ds[i] # 0 /\ \A j \in 1..(i - 1) : ds[j] = 0,
                Len(ds))

\* ds with zeros before it, n digits in all.
NatPad(ds, n) == [i \in 1..(n - Len(ds)) |-> 0] \o ds

\* The digits of n >= 0, and the number a sequence of digits is.
RECURSIVE NatDigits(_)
NatDigits(n) == IF n = 0 THEN <<>> ELSE Append(NatDigits(n \div 10), n % 10)

RECURSIVE NatValue(_)
NatValue(ds) ==
    IF ds = <<>> THEN 0
    ELSE NatValue(SubSeq(ds, 1, Len(ds) - 1)) * 10 + ds[Len(ds)]

\* a < b
NatLess(a, b) ==
    IF Len(a) # Len(b) THEN Len(a) < Len(b)
    ELSE \E i \in 1..Len(a) :
           a[i] < b[i] /\ \A j \in 1..(i - 1) : a[j] = b[j]

\* x + y for x and y of one length, the first digit of both 0: digit i of
\* the sum takes a carry iff, of the digits after it, the first whose two
\* digits do not add up to 9 add up to more.
NatCarry(x, y, i) ==
    \E j \in (i + 1)..Len(x) :
      x[j] + y[j] > 9 /\ \A k \in (i + 1)..(j - 1) : x[k] + y[k] = 9

NatSumPadded(x, y) ==
    [i \in 1..Len(x) |->
       (x[i] + y[i] + (IF NatCarry(x, y, i) THEN 1 ELSE 0)) % 10]

\* a + b
NatSum(a, b) ==
    NatTrim(NatSumPadded(
              NatPad(a, (IF Len(a) > Len(b) THEN Len(a) ELSE Len(b)) + 1),
              NatPad(b, (IF Len(a) > Len(b) THEN Len(a) ELSE Len(b)) + 1)))

\* x - y for x >= y of one length: digit i of the difference lends 1 iff,
\* of the digits after it, the first where x and y differ is the smaller
\* in x.
NatBorrow(x, y, i) ==
    \E j \in (i + 1)..Len(x) :
      x[j] < y[j] /\ \A k \in (i + 1)..(j - 1) : x[k] = y[k]

NatDiffPadded(x, y) ==
    [i \in 1..Len(x) |->
       (x[i] - y[i] - (IF NatBorrow(x, y, i) THEN 1 ELSE 0) + 10) % 10]

\* a - b for a >= b
NatDiff(a, b) == NatTrim(NatDiffPadded(a, NatPad(b, Len(a))))

\* a * 2: a digit takes a carry iff the digit after it is 5 or more.
NatDouble(a) ==
    NatTrim([i \in 1..(Len(a) + 1) |->
               (2 * (IF i = 1 THEN 0 ELSE a[i - 1])
                  + (IF i <= Len(a) /\ a[i] >= 5 THEN 1 ELSE 0)) % 10])

\* a \div 2: a digit takes 10 more iff the digit before it is odd.
NatHalf(a) ==
    NatTrim([i \in 1..Len(a) |->
               (a[i] + (IF i > 1 /\ a[i - 1] % 2 = 1 THEN 10 ELSE 0)) \div 2])

\* a * 10
NatTimes10(a) == IF a = <<>> THEN a ELSE Append(a, 0)

\* a * 2^k and a \div 2^k, by halves of k.
RECURSIVE NatShift(_, _)
NatShift(a, k) ==
    IF a = <<>> \/ k = 0 THEN a
    ELSE IF k = 1 THEN NatDouble(a)
    ELSE NatShift(NatShift(a, k \div 2), k - k \div 2)

RECURSIVE NatShiftDown(_, _)
NatShiftDown(a, k) ==
    IF a = <<>> \/ k = 0 THEN a
    ELSE IF k = 1 THEN NatHalf(a)
    ELSE NatShiftDown(NatShiftDown(a, k \div 2), k - k \div 2)

\* q, or q + 1, for a quotient q with remainder r by d: the nearest, and the
\* even one of the two when the remainder is half of d.
NatNearest(q, r, d) ==
    IF \/ NatLess(d, NatDouble(r))
       \/ NatDouble(r) = d /\ q # <<>> /\ q[Len(q)] % 2 = 1
    THEN NatSum(q, <<1>>) ELSE q

\* The number nearest to n / 2^k, q being n \div 2^k.
NatShiftRound(n, q, k) ==
    NatNearest(q, NatDiff(n, NatShift(q, k)), NatShift(<<1>>, k))

NatShiftNearest(n, k) == NatShiftRound(n, NatShiftDown(n, k), k)

\* The numbers b * 0 .. b * 9, from b, b * 2, b * 4 and b * 8.
NatMultiples(b) ==
    <<<<>>, b, NatDouble(b), NatSum(NatDouble(b), b), NatShift(b, 2),
      NatSum(NatShift(b, 2), b), NatSum(NatShift(b, 2), NatDouble(b)),
      NatDiff(NatShift(b, 3), b), NatShift(b, 3), NatSum(NatShift(b, 3), b)>>

\* The next digit of a long division by b: how many times b is in cur, a
\* number less than b * 10; multiples[k + 1] is b * k, for k in 0..9.
NatDivDigit(cur, multiples) ==
    CHOOSE k \in 0..9 :
      /\ ~NatLess(cur, multiples[k + 1])
      /\ k < 9 => NatLess(cur, multiples[k + 2])

\* A step of the long division: st is the quotient q and the remainder r so
\* far and the digits of the dividend yet to take in, cur the remainder
\* with the next digit after it and d the digit of the quotient it gives.
NatDivNext(st, cur, d, multiples) ==
    [q |-> NatTrim(Append(st.q, d)), r |-> NatDiff(cur, multiples[d + 1]),
     rest |-> Tail(st.rest)]

NatDivStep(st, cur, multiples) ==
    NatDivNext(st, cur, NatDivDigit(cur, multiples), multiples)

RECURSIVE NatDivSteps(_, _)
NatDivSteps(st, multiples) ==
    IF st.rest = <<>> THEN st
    ELSE NatDivSteps(NatDivStep(st, NatTrim(Append(st.r, Head(st.rest))),
                                multiples),
                     multiples)

\* Quotient q and remainder r of a by b > 0: the digits of a that are fewer
\* than those of b make a number less than b.
NatDivFrom(a, b, skip) ==
    NatDivSteps([q |-> <<>>, r |-> NatTrim(SubSeq(a, 1, skip)),
                 rest |-> SubSeq(a, skip + 1, Len(a))],
                NatMultiples(b))

NatDivMod(a, b) ==
    NatDivFrom(a, b, IF Len(a) < Len(b) THEN Len(a) ELSE Len(b) - 1)

\* The number nearest to a / d (the even one of two that are as near).
NatQuotientRound(st, d) == NatNearest(st.q, st.r, d)

NatDivNearest(a, d) == NatQuotientRound(NatDivMod(a, d), d)

\* 2^63 and 2^64
Two63 == <<9, 2, 2, 3, 3, 7, 2, 0, 3, 6, 8, 5, 4, 7, 7, 5, 8, 0, 8>>
Two64 == <<1, 8, 4, 4, 6, 7, 4, 4, 0, 7, 3, 7, 0, 9, 5, 5, 1, 6, 1, 6>>

(***************************************************************************)
(* Go's int.  Int64(n) is the int of the integer n.  A sum or a difference *)
(* that leaves the range -2^63 .. 2^63 - 1 wraps around (it is taken       *)
(* modulo 2^64).                                                           *)
(***************************************************************************)
Int64(n) ==
    [neg |-> n < 0, mag |-> NatDigits(IF n < 0 THEN -n ELSE n)]

\* The int of the number of sign neg and magnitude mag <= 2^64.
Wrap64(neg, mag) ==
    IF mag = <<>> THEN [neg |-> FALSE, mag |-> <<>>]
    ELSE IF neg
    THEN (IF NatLess(Two63, mag)
          THEN [neg |-> FALSE, mag |-> NatDiff(Two64, mag)]
          ELSE [neg |-> TRUE, mag |-> mag])
    ELSE (IF NatLess(mag, Two63) THEN [neg |-> FALSE, mag |-> mag]
          ELSE [neg |-> mag # Two64, mag |-> NatDiff(Two64, mag)])

\* x + y
Sum64(x, y) ==
    IF x.neg = y.neg THEN Wrap64(x.neg, NatSum(x.mag, y.mag))
    ELSE IF NatLess(x.mag, y.mag) THEN Wrap64(y.neg, NatDiff(y.mag, x.mag))
    ELSE Wrap64(x.neg, NatDiff(x.mag, y.mag))

\* x - y
Diff64(x, y) ==
    Sum64(x, [neg |-> ~y.neg /\ y.mag # <<>>, mag |-> y.mag])

\* x > 0
Positive(x) == ~x.neg /\ x.mag # <<>>

(***************************************************************************)
(* strconv.Atoi on a string of digits: the value, or an error when it is   *)
(* out of the range of a 64-bit int.                                       *)
(***************************************************************************)
\* 1<<63 - 1
MaxInt64 == [neg |-> FALSE, mag |-> NatDiff(Two63, <<1>>)]

Atoi(ds) ==
    LET mag == NatTrim([i \in 1..Len(ds) |-> DigitVal(ds[i])])
    IN IF NatLess(mag, Two63)
       THEN [err |-> FALSE, i |-> [neg |-> FALSE, mag |-> mag]]
       ELSE [err |-> TRUE, i |-> MaxInt64]

\* fmt's %d
Itoa(x) ==
    (IF x.neg THEN <<"-">> ELSE <<>>)
      \o (IF x.mag = <<>> THEN <<"0">>
          ELSE [i \in 1..Len(x.mag) |-> DigitChr(x.mag[i])])

(***************************************************************************)
(* parseLine: the patterns are tried in the order Version, Plan, Test,     *)
(* Diagnostic, Bail; a line none matches is Unknown.                       *)
(***************************************************************************)
lineRecord(type, planFirst, planLast, testNum) ==
    [Type |-> type, PlanFirst |-> planFirst, PlanLast |-> planLast,
     TestNum |-> testNum, Description |-> <<>>, Directive |-> <<>>]

\* The number a group of digits sets a field to: 0 when the group is empty
\* or Atoi fails.
FieldOf(digits) ==
    IF digits = <<>> \/ Atoi(digits).err THEN Int64(0) ELSE Atoi(digits).i

parseLine(text) ==
    IF FindStringSubmatch(reVersion, text).ok
    THEN lineRecord(tapVersion, Int64(0), Int64(0), Int64(0))
    ELSE IF FindStringSubmatch(rePlan, text).ok
    THEN LET matches == FindStringSubmatch(rePlan, text).caps
         IN lineRecord(tapPlan, FieldOf(matches[1]), FieldOf(matches[2]),
                       Int64(0))
    ELSE IF FindStringSubmatch(reTest, text).ok
    THEN LET matches == FindStringSubmatch(reTest, text).caps
             res == matches[1]
         IN lineRecord(IF res = sOk THEN tapTestOK
                       ELSE IF res = sNotOk THEN tapTestNOK ELSE tapUnknown,
                       Int64(0), Int64(0), FieldOf(matches[2]))
    ELSE IF FindStringSubmatch(reDiagnostic, text).ok
    THEN lineRecord(tapDiagnostic, Int64(0), Int64(0), Int64(0))
    ELSE IF FindStringSubmatch(reBail, text).ok
    THEN lineRecord(tapBail, Int64(0), Int64(0), Int64(0))
    ELSE lineRecord(tapUnknown, Int64(0), Int64(0), Int64(0))

(***************************************************************************)
(* Options and the colour map.  A colour string is a sequence of           *)
(* characters, as a line is; the empty one is an option not given.         *)
(***************************************************************************)
\* The option values of a run with no colour option given.
options ==
    [Failures : BOOLEAN, Glyphs : BOOLEAN, Summary : BOOLEAN,
     CVersion : {<<>>}, CPlan : {<<>>}, COk : {<<>>}, CFail : {<<>>},
     CDiag : {<<>>}, CBail : {<<>>}]

defaultCUnknown ==
    <<"d", "e", "f", "a", "u", "l", "t">>
defaultCVersion ==
    <<"c", "y", "a", "n">>
defaultCPlan ==
    <<"w", "h", "i", "t", "e">>
defaultCOk ==
    <<"g", "r", "e", "e", "n">>
defaultCFail ==
    <<"r", "e", "d", " ", "b", "o", "l", "d">>
defaultCDiag ==
    <<"g", "r", "a", "y">>
defaultCBail ==
    <<"y", "e", "l", "l", "o", "w", " ", "b", "o", "l", "d">>
defaultCSummOk ==
    <<"g", "r", "e", "e", "n", " ", "b", "o", "l", "d">>
defaultCSummFail ==
    <<"r", "e", "d", " ", "b", "o", "l", "d">>
defaultCPlanFail ==
    <<"m", "a", "g", "e", "n", "t", "a", " ", "b", "o", "l", "d">>

HexDigit ==
    Digit \cup {"a", "b", "c", "d", "e", "f", "A", "B", "C", "D", "E", "F"}

\* (?i)^#?([0-9a-f]{6}|[0-9a-f]{3})$
reHexColour ==
    Cat(<<Bol, Opt(Lit("#")),
          Grp(1, Alt(<<Times(Chr(HexDigit), 6), Times(Chr(HexDigit), 3)>>)),
          Eol>>)

colourStringMap ==
    <<"r", "e", "d">> :> "FgRed"
    @@ <<"b", "l", "u", "e">> :> "FgBlue"
    @@ <<"g", "r", "e", "e", "n">> :> "FgGreen"
    @@ <<"y", "e", "l", "l", "o", "w">> :> "FgYellow"
    @@ <<"c", "y", "a", "n">> :> "FgCyan"
    @@ <<"m", "a", "g", "e", "n", "t", "a">> :> "FgMagenta"
    @@ <<"w", "h", "i", "t", "e">> :> "FgWhite"
    @@ <<"b", "l", "a", "c", "k">> :> "FgBlack"
    @@ <<"g", "r", "a", "y">> :> "FgGray"
    @@ <<"d", "e", "f", "a", "u", "l", "t">> :> "FgDefault"

colourOptMap ==
    <<"b", "o", "l", "d">> :> "OpBold"
    @@ <<"i", "t", "a", "l", "i", "c">> :> "OpItalic"
    @@ <<"u", "n", "d", "e", "r", "s", "c", "o", "r", "e">> :> "OpUnderscore"
    @@ <<"b", "l", "i", "n", "k">> :> "OpBlink"
    @@ <<"c", "o", "n", "c", "e", "a", "l", "e", "d">> :> "OpConcealed"
    @@ <<"f", "u", "z", "z", "y">> :> "OpFuzzy"
    @@ <<"r", "e", "v", "e", "r", "s", "e">> :> "OpReverse"

\* strings.Split(c, sep): the parts of c between the separators, one more
\* than there are separators.
RECURSIVE Split(_, _)
Split(c, sep) ==
    IF \A i \in DOMAIN c : c[i] # sep THEN <<c>>
    ELSE LET k == CHOOSE i \in DOMAIN c :
                    c[i] = sep /\ \A j \in 1..(i - 1) : c[j] # sep
         IN <<SubSeq(c, 1, k - 1)>> \o Split(SubSeq(c, k + 1, Len(c)), sep)

\* The loop of parseColour over the parts of the string: a part that names
\* an option is one, any other is the colour, and a second one is an error
\* when the colour is set (to other than the empty string).
RECURSIVE scanTokens(_, _, _)
scanTokens(ts, colourStr, opt) ==
    IF ts = <<>>
    THEN [err |-> FALSE, colourStr |-> colourStr, options |-> opt]
    ELSE IF Head(ts) \in DOMAIN colourOptMap
    THEN scanTokens(Tail(ts), colourStr,
                    Append(opt, colourOptMap[Head(ts)]))
    ELSE IF colourStr # <<>>
    THEN [err |-> TRUE, colourStr |-> colourStr, options |-> opt]
    ELSE scanTokens(Tail(ts), Head(ts), opt)

\* parseColour: a printer (the colour, a hex string or a named colour, and
\* its options), or an error.
parseColour(c) ==
    LET sc == scanTokens(Split(c, " "), <<>>, <<>>)
        none == [err |-> TRUE, hex |-> FALSE, colour |-> <<>>, opts |-> <<>>]
    IN IF sc.err THEN none
       ELSE IF MatchString(reHexColour, sc.colourStr)
       THEN [err |-> FALSE, hex |-> TRUE, colour |-> sc.colourStr,
             opts |-> sc.options]
       ELSE IF sc.colourStr \notin DOMAIN colourStringMap THEN none
       ELSE [err |-> FALSE, hex |-> FALSE,
             colour |-> colourStringMap[sc.colourStr], opts |-> sc.options]

\* getColour: the printer of the option's colour string when there is one
\* and it parses, else that of the default; fatal is log.Fatal, for a
\* default that does not parse.
getColour(defaultColour, optColour) ==
    IF optColour # <<>> /\ ~parseColour(optColour).err
    THEN [fatal |-> FALSE, c |-> parseColour(optColour)]
    ELSE [fatal |-> parseColour(defaultColour).err,
          c |-> parseColour(defaultColour)]

\* The colour of each of the ten line types, as getColourMap asks for it.
colourOf(opt, t) ==
    CASE t = tapUnknown -> getColour(defaultCUnknown, <<>>)
      [] t = tapVersion -> getColour(defaultCVersion, opt.CVersion)
      [] t = tapPlan -> getColour(defaultCPlan, opt.CPlan)
      [] t = tapTestOK -> getColour(defaultCOk, opt.COk)
      [] t = tapTestNOK -> getColour(defaultCFail, opt.CFail)
      [] t = tapDiagnostic -> getColour(defaultCDiag, opt.CDiag)
      [] t = tapBail -> getColour(defaultCBail, opt.CBail)
      [] t = tapSummaryOK -> getColour(defaultCSummOk, <<>>)
      [] t = tapSummaryNOK -> getColour(defaultCSummFail, <<>>)
      [] t = tapPlanNOK -> getColour(defaultCPlanFail, <<>>)

\* A bug: the colour map has no printer for Unknown lines.
getColourMapNoUnknown(opt) ==
    [t \in lineType \ {tapUnknown} |-> colourOf(opt, t).c]

\* The colour map has a printer for each of the ten line types.
getColourMap(opt) == [t \in lineType |-> colourOf(opt, t).c]

\* getColourMap ends the process when a getColour does.
getColourMapFatal(opt) == \E t \in lineType : colourOf(opt, t).fatal

(***************************************************************************)
(* Output: one record for each Println or Printf call on a printer of the  *)
(* colour map: the line type whose printer it is, the printer, the format  *)
(* and the arguments as text (a %d argument is formatted by Itoa, a        *)
(* %0.02f argument by FormatFloat2).                                       *)
(***************************************************************************)
Println(cmap, linetype, text) ==
    [kind |-> linetype, style |-> cmap[linetype], fmt |-> "Println",
     args |-> <<text>>]

Printf(cmap, linetype, fmt, args) ==
    [kind |-> linetype, style |-> cmap[linetype], fmt |-> fmt, args |-> args]

\* The number of bits of n, one of lo..hi: the least k with n < 2^k, found
\* by halving lo..hi.
RECURSIVE NatBitsIn(_, _, _)
NatBitsIn(n, lo, hi) ==
    IF lo = hi THEN lo
    ELSE IF NatShiftDown(n, (lo + hi) \div 2) = <<>>
    THEN NatBitsIn(n, lo, (lo + hi) \div 2)
    ELSE NatBitsIn(n, (lo + hi) \div 2 + 1, hi)

NatBits(n) == NatBitsIn(n, 0, 4 * Len(n))

\* float64(n) for an int of magnitude n, a number of the given number of
\* bits: the nearest number of 53 significant bits (the even one of two
\* that are as near), which is the nearest multiple of 2^(bits - 53).
Round53Of(n, bits) ==
    IF bits <= 53 THEN n
    ELSE NatShift(NatShiftNearest(n, bits - 53), bits - 53)

Round53(n) == Round53Of(n, NatBits(n))

\* The e with 2^e <= a / b < 2^(e + 1), for a > 0 and b > 0: it is e0 or
\* e0 - 1, for the difference e0 of their numbers of bits.
Log2Near(a, b, e0) ==
    IF NatLess(NatShift(a, IF e0 < 0 THEN -e0 ELSE 0),
               NatShift(b, IF e0 > 0 THEN e0 ELSE 0))
    THEN e0 - 1 ELSE e0

Log2Floor(a, b) == Log2Near(a, b, NatBits(a) - NatBits(b))

\* The float64 quotient of two float64 numbers a > 0 and b > 0 that are
\* whole: the number m * 2^e nearest to a / b with 2^52 <= m <= 2^53, so
\* the number nearest to a * 2^s / b for s = -e.
Quotient53At(a, b, s) ==
    [m |-> NatDivNearest(NatShift(a, IF s > 0 THEN s ELSE 0),
                         NatShift(b, IF s < 0 THEN -s ELSE 0)),
     e |-> -s]

Quotient53(a, b) == Quotient53At(a, b, 52 - Log2Floor(a, b))

\* The number of hundredths %0.02f prints for the float64 f.m * 2^f.e: the
\* nearest to it (the even one of two that are as near).
Hundredths(f) ==
    IF f.e >= 0 THEN NatShift(NatTimes10(NatTimes10(f.m)), f.e)
    ELSE NatShiftNearest(NatTimes10(NatTimes10(f.m)), -f.e)

\* The hundredths printed for float64(x) * 100 / float64(y), for the
\* magnitudes x > 0 and y > 0 of two ints: each of the conversions, the
\* product and the quotient is rounded to a float64.
PercentHundredths(x, y) ==
    Hundredths(Quotient53(Round53(NatTimes10(NatTimes10(Round53(x)))),
                          Round53(y)))

\* The same for x < 10^5 and y < 10^9, when the hundredths of the exact
\* quotient are no tie: the float64 is nearer to the exact quotient than
\* that is to a tie, so both are rounded to the same hundredths.
PercentIsSmall(x, y) ==
    /\ Len(x) <= 5
    /\ Len(y) <= 9
    /\ 2 * ((NatValue(x) * 10000) % NatValue(y)) # NatValue(y)

PercentHundredthsSmall(x, y) ==
    LET n == NatValue(x) * 10000
        d == NatValue(y)
    IN NatDigits(IF 2 * (n % d) > d THEN n \div d + 1 ELSE n \div d)

\* %0.02f of a number of h hundredths: the sign, the whole part, a point
\* and two decimals.
FormatHundredths(neg, h) ==
    (IF neg THEN <<"-">> ELSE <<>>)
      \o (IF Len(h) > 2 THEN [i \in 1..(Len(h) - 2) |-> DigitChr(h[i])]
          ELSE <<"0">>)
      \o <<".", IF Len(h) >= 2 THEN DigitChr(h[Len(h) - 1]) ELSE "0",
           IF Len(h) >= 1 THEN DigitChr(h[Len(h)]) ELSE "0">>

\* %0.02f of float64(num) * 100 / float64(den): a zero has the sign of the
\* quotient too; a division by zero gives an infinity, or no number.  The
\* two ints are the values n and d (the set binds them, so that each is
\* evaluated once).
FormatFloat2(num, den) ==
    CHOOSE s \in
      {IF d.mag = <<>>
       THEN (IF n.mag = <<>> THEN <<"N", "a", "N">>
             ELSE IF n.neg THEN <<"-", "I", "n", "f">>
             ELSE <<"+", "I", "n", "f">>)
       ELSE FormatHundredths(n.neg # d.neg,
                             IF n.mag = <<>> THEN <<>>
                             ELSE IF PercentIsSmall(n.mag, d.mag)
                             THEN PercentHundredthsSmall(n.mag, d.mag)
                             ELSE PercentHundredths(n.mag, d.mag)) :
       n \in {num}, d \in {den}} : TRUE

RECURSIVE failureString(_)
failureString(failures) ==
    IF failures = <<>> THEN <<>>
    ELSE IF Len(failures) = 1 THEN Itoa(failures[1])
    ELSE failureString(SubSeq(failures, 1, Len(failures) - 1))
           \o <<",", " ">> \o Itoa(failures[Len(failures)])

\* A bug: a Bail line gets no glyph.
glyphTextNoBail(text, linetype, opts) ==
    IF ~opts.Glyphs THEN text
    ELSE CASE linetype = tapTestOK ->
                ReplaceAllString(reTestPrefix, text, <<glyphOK, " ">>)
           [] linetype = tapTestNOK ->
                ReplaceAllString(reTestPrefix, text, <<glyphNOK, " ">>)
           [] OTHER -> text

\* The text cprintln prints for a line: with glyphs on, the `ok`/`not ok`
\* prefix is replaced by a glyph and a Bail line gets one in front.
glyphText(text, linetype, opts) ==
    IF ~opts.Glyphs THEN text
    ELSE CASE linetype = tapTestOK ->
                ReplaceAllString(reTestPrefix, text, <<glyphOK, " ">>)
           [] linetype = tapTestNOK ->
                ReplaceAllString(reTestPrefix, text, <<glyphNOK, " ">>)
           [] linetype = tapBail -> <<glyphNOK, " ">> \o text
           [] OTHER -> text

(***************************************************************************)
(* The input: the lines of the file, drawn from Corpus, MaxLines at most.  *)
(***************************************************************************)
MaxLines == 3

lnVersion ==
    <<"T", "A", "P", " ", "v", "e", "r", "s", "i", "o", "n", " ", "1", "3">>
lnPlan2 == <<"1", ".", ".", "2">>
lnPlan0 == <<"0", ".", ".", "0">>
lnOk == <<"o", "k">>
lnOk2 == <<"o", "k", " ", "2">>
lnNotOk == <<"n", "o", "t", " ", "o", "k">>
lnNotOk1 == <<"n", "o", "t", " ", "o", "k", " ", "1">>
lnDiag == <<"#", " ", "d">>
lnBail == <<"B", "a", "i", "l", " ", "o", "u", "t", "!">>
lnBlank == <<>>

Corpus ==
    {lnVersion, lnPlan2, lnPlan0, lnOk, lnOk2, lnNotOk, lnNotOk1, lnDiag,
     lnBail, lnBlank}

(***************************************************************************)
(* memo holds, for each line the input can hold, what parseLine returns    *)
(* for it (and the digits it took the test number from) and the text       *)
(* cprintln prints for it with glyphs off and on: the table is computed    *)
(* from parseLine and glyphText when the run starts, and the loop looks    *)
(* the lines it reads up in it.                                            *)
(***************************************************************************)
VARIABLE memo

\* testno of parseLine: the digits the test pattern matched as the number
\* of a test line, none when it matched none.
testno(text) ==
    IF parseLine(text).Type \in {tapTestOK, tapTestNOK}
    THEN FindStringSubmatch(reTest, text).caps[2]
    ELSE <<>>

memoOf(text) ==
    [line |-> parseLine(text),
     testno |-> testno(text),
     plain |-> glyphText(text, parseLine(text).Type,
                         [Failures |-> FALSE, Glyphs |-> FALSE,
                          Summary |-> FALSE]),
     glyph |-> glyphText(text, parseLine(text).Type,
                         [Failures |-> FALSE, Glyphs |-> TRUE,
                          Summary |-> FALSE])]

MemoTable ==
    lnVersion :> memoOf(lnVersion)
    @@ lnPlan2 :> memoOf(lnPlan2)
    @@ lnPlan0 :> memoOf(lnPlan0)
    @@ lnOk :> memoOf(lnOk)
    @@ lnOk2 :> memoOf(lnOk2)
    @@ lnNotOk :> memoOf(lnNotOk)
    @@ lnNotOk1 :> memoOf(lnNotOk1)
    @@ lnDiag :> memoOf(lnDiag)
    @@ lnBail :> memoOf(lnBail)
    @@ lnBlank :> memoOf(lnBlank)

\* A bug: successes are not suppressed.
cprintlnNoSuppress(text, linetype, cmap, opts) ==
    IF linetype \notin DOMAIN cmap
    THEN [fatal |-> TRUE, out |-> <<>>]
    ELSE [fatal |-> FALSE,
          out |-> <<Println(cmap, linetype,
                            IF opts.Glyphs THEN memo[text].glyph
                            ELSE memo[text].plain)>>]

\* A bug: diagnostic lines are not printed.
cprintlnNoDiag(text, linetype, cmap, opts) ==
    IF (opts.Failures /\ linetype = tapTestOK) \/ linetype = tapDiagnostic
    THEN [fatal |-> FALSE, out |-> <<>>]
    ELSE IF linetype \notin DOMAIN cmap
    THEN [fatal |-> TRUE, out |-> <<>>]
    ELSE [fatal |-> FALSE,
          out |-> <<Println(cmap, linetype,
                            IF opts.Glyphs THEN memo[text].glyph
                            ELSE memo[text].plain)>>]

\* cprintln: the calls it makes, and whether it ends the process (log.Fatalf
\* for a line type with no printer).
cprintln(text, linetype, cmap, opts) ==
    IF opts.Failures /\ linetype = tapTestOK
    THEN [fatal |-> FALSE, out |-> <<>>]
    ELSE IF linetype \notin DOMAIN cmap
    THEN [fatal |-> TRUE, out |-> <<>>]
    ELSE [fatal |-> FALSE,
          out |-> <<Println(cmap, linetype, IF opts.Glyphs THEN memo[text].glyph ELSE memo[text].plain)>>]

\* A bug: a run with no failure passes, whatever the plan.
printSummaryNoPlan(failures, testnum, planNOK, cmap, opts) ==
    IF Len(failures) > 0
    THEN LET plural == IF Len(failures) > 1 THEN <<"s">> ELSE <<>>
             glyph == IF opts.Glyphs THEN <<glyphNOK, " ">> ELSE <<>>
         IN <<Printf(cmap, tapSummaryNOK, "%sFAILED test%s: %s\n",
                     <<glyph, plural, failureString(failures)>>),
              Printf(cmap, tapSummaryNOK, "%sFailed %d/%d tests, %0.02f%% ok\n",
                     <<glyph, Itoa(Int64(Len(failures))), Itoa(testnum),
                       FormatFloat2(Diff64(testnum, Int64(Len(failures))),
                                    testnum)>>)>>
    ELSE LET glyph == IF opts.Glyphs THEN <<glyphOK, " ">> ELSE <<>>
         IN <<Printf(cmap, tapSummaryOK, "%sPassed %d/%d tests, 100%% ok\n",
                     <<glyph, Itoa(testnum), Itoa(testnum)>>)>>

printSummary(failures, testnum, planNOK, cmap, opts) ==
    IF Len(failures) > 0
    THEN LET plural == IF Len(failures) > 1 THEN <<"s">> ELSE <<>>
             glyph == IF opts.Glyphs THEN <<glyphNOK, " ">> ELSE <<>>
         IN <<Printf(cmap, tapSummaryNOK, "%sFAILED test%s: %s\n",
                     <<glyph, plural, failureString(failures)>>),
              Printf(cmap, tapSummaryNOK, "%sFailed %d/%d tests, %0.02f%% ok\n",
                     <<glyph, Itoa(Int64(Len(failures))), Itoa(testnum),
                       FormatFloat2(Diff64(testnum, Int64(Len(failures))),
                                    testnum)>>)>>
    ELSE IF ~planNOK
    THEN LET glyph == IF opts.Glyphs THEN <<glyphOK, " ">> ELSE <<>>
         IN <<Printf(cmap, tapSummaryOK, "%sPassed %d/%d tests, 100%% ok\n",
                     <<glyph, Itoa(testnum), Itoa(testnum)>>)>>
    ELSE <<>>

\* A bug: a run with no tests is no mismatch.
planMismatchNoZero(testnum, planLast) == testnum # planLast

\* planNOK of printAppends.
planMismatch(testnum, planLast) ==
    testnum = Int64(0) \/ testnum # planLast

\* A bug: a mismatch sets the exit code, whatever it was.
appendsExitCodeSet(testnum, planLast, exitCode) ==
    IF testnum = Int64(0) \/ testnum # planLast THEN planFailExitCode
    ELSE exitCode

\* The exit code printAppends returns.
appendsExitCode(testnum, planLast, exitCode) ==
    IF planMismatch(testnum, planLast) /\ exitCode < planFailExitCode
    THEN planFailExitCode ELSE exitCode

fmtNoTests == "%sFailed plan: no tests seen\n"
fmtOnlySeen == "%sFailed plan: only %d/%d planned tests seen\n"

\* A bug: the plan-failure line is part of the summary.
planFailLineSummary(testnum, planLast, cmap, opts) ==
    LET glyph == IF opts.Glyphs THEN <<glyphNOK, " ">> ELSE <<>>
    IN IF ~(testnum = Int64(0) \/ testnum # planLast) \/ ~opts.Summary
       THEN <<>>
       ELSE IF testnum = Int64(0)
       THEN <<Printf(cmap, tapPlanNOK, fmtNoTests, <<glyph>>)>>
       ELSE <<Printf(cmap, tapPlanNOK, fmtOnlySeen,
                     <<glyph, Itoa(testnum), Itoa(planLast)>>)>>

\* The plan-failure line of printAppends.
planFailLine(testnum, planLast, cmap, opts) ==
    LET glyph == IF opts.Glyphs THEN <<glyphNOK, " ">> ELSE <<>>
    IN IF ~planMismatch(testnum, planLast) THEN <<>>
       ELSE IF testnum = Int64(0)
       THEN <<Printf(cmap, tapPlanNOK, fmtNoTests, <<glyph>>)>>
       ELSE <<Printf(cmap, tapPlanNOK, fmtOnlySeen,
                     <<glyph, Itoa(testnum), Itoa(planLast)>>)>>

\* A bug: the plan-failure line comes before the summary.
printAppendsPlanFirst(failures, testnum, planLast, exitCode, cmap, opts) ==
    LET planNOK == planMismatch(testnum, planLast)
    IN [exitCode |-> appendsExitCode(testnum, planLast, exitCode),
        out |-> planFailLine(testnum, planLast, cmap, opts)
                  \o (IF opts.Summary
                      THEN printSummary(failures, testnum, planNOK, cmap, opts)
                      ELSE <<>>)]

printAppends(failures, testnum, planLast, exitCode, cmap, opts) ==
    LET planNOK == planMismatch(testnum, planLast)
    IN [exitCode |-> appendsExitCode(testnum, planLast, exitCode),
        out |-> (IF opts.Summary
                 THEN printSummary(failures, testnum, planNOK, cmap, opts)
                 ELSE <<>>)
                  \o planFailLine(testnum, planLast, cmap, opts)]

(***************************************************************************)
(* The body of runCLI's scanner loop for one line: the line is classified  *)
(* and printed, then the run state is updated by the line's type.  st is   *)
(* the run state: planLast, testnum, failures, exitCode, and the output.   *)
(***************************************************************************)
\* A bug: the number of a test line is not looked at.
nextTestnumCount(testnum, line) == Sum64(testnum, Int64(1))

\* testnum after a test line: testnum++ wraps around.
nextTestnum(testnum, line) ==
    IF Positive(line.TestNum) THEN line.TestNum
    ELSE Sum64(testnum, Int64(1))

\* A bug: the exit code is set, not raised.
raiseExitCodeSet(exitCode, code) == code

\* A bug: the codes add up.
raiseExitCodeAdd(exitCode, code) == exitCode + code

raiseExitCode(exitCode, code) == IF exitCode < code THEN code ELSE exitCode

\* A bug: the first Plan line counts, not the last.
switchOnTypeFirstPlan(st, line) ==
    CASE line.Type = tapPlan ->
           [st EXCEPT !.planLast = IF @ = Int64(0) THEN line.PlanLast ELSE @]
      [] line.Type = tapTestOK ->
           [st EXCEPT !.testnum = nextTestnum(st.testnum, line)]
      [] line.Type = tapTestNOK ->
           [st EXCEPT !.testnum = nextTestnum(st.testnum, line),
                      !.failures = Append(@, nextTestnum(st.testnum, line)),
                      !.exitCode = raiseExitCode(@, testFailExitCode)]
      [] line.Type = tapBail ->
           [st EXCEPT !.exitCode = raiseExitCode(@, bailExitCode)]
      [] OTHER -> st

\* A bug: the number testnum had before the line is recorded as failed.
switchOnTypeStale(st, line) ==
    CASE line.Type = tapPlan -> [st EXCEPT !.planLast = line.PlanLast]
      [] line.Type = tapTestOK ->
           [st EXCEPT !.testnum = nextTestnum(st.testnum, line)]
      [] line.Type = tapTestNOK ->
           [st EXCEPT !.testnum = nextTestnum(st.testnum, line),
                      !.failures = Append(@, st.testnum),
                      !.exitCode = raiseExitCode(@, testFailExitCode)]
      [] line.Type = tapBail ->
           [st EXCEPT !.exitCode = raiseExitCode(@, bailExitCode)]
      [] OTHER -> st

\* A bug: a diagnostic line counts as a test.
switchOnTypeDiag(st, line) ==
    CASE line.Type = tapPlan -> [st EXCEPT !.planLast = line.PlanLast]
      [] line.Type = tapTestOK ->
           [st EXCEPT !.testnum = nextTestnum(st.testnum, line)]
      [] line.Type = tapTestNOK ->
           [st EXCEPT !.testnum = nextTestnum(st.testnum, line),
                      !.failures = Append(@, nextTestnum(st.testnum, line)),
                      !.exitCode = raiseExitCode(@, testFailExitCode)]
      [] line.Type = tapBail ->
           [st EXCEPT !.exitCode = raiseExitCode(@, bailExitCode)]
      [] line.Type = tapDiagnostic ->
           [st EXCEPT !.testnum = Sum64(@, Int64(1))]
      [] OTHER -> st

\* A bug: a Plan line starts the count of tests again.
switchOnTypePlanResets(st, line) ==
    CASE line.Type = tapPlan ->
           [st EXCEPT !.planLast = line.PlanLast, !.testnum = Int64(0)]
      [] line.Type = tapTestOK ->
           [st EXCEPT !.testnum = nextTestnum(st.testnum, line)]
      [] line.Type = tapTestNOK ->
           [st EXCEPT !.testnum = nextTestnum(st.testnum, line),
                      !.failures = Append(@, nextTestnum(st.testnum, line)),
                      !.exitCode = raiseExitCode(@, testFailExitCode)]
      [] line.Type = tapBail ->
           [st EXCEPT !.exitCode = raiseExitCode(@, bailExitCode)]
      [] OTHER -> st

\* The switch on the line's type.
switchOnType(st, line) ==
    CASE line.Type = tapPlan -> [st EXCEPT !.planLast = line.PlanLast]
      [] line.Type = tapTestOK ->
           [st EXCEPT !.testnum = nextTestnum(st.testnum, line)]
      [] line.Type = tapTestNOK ->
           [st EXCEPT !.testnum = nextTestnum(st.testnum, line),
                      !.failures = Append(@, nextTestnum(st.testnum, line)),
                      !.exitCode = raiseExitCode(@, testFailExitCode)]
      [] line.Type = tapBail ->
           [st EXCEPT !.exitCode = raiseExitCode(@, bailExitCode)]
      [] OTHER -> st

\* A bug: a line that is not printed is not counted either.
loopBodySkip(st, text, cmap, opts) ==
    LET pr == cprintln(text, memo[text].line.Type, cmap, opts)
    IN IF pr.fatal THEN [st EXCEPT !.fatal = TRUE]
       ELSE IF pr.out = <<>> THEN st
       ELSE [switchOnType(st, memo[text].line) EXCEPT !.out = @ \o pr.out]

\* A bug: after a Bail line, lines are printed and not counted.
loopBodyStop(st, text, cmap, opts) ==
    LET pr == cprintln(text, memo[text].line.Type, cmap, opts)
    IN IF pr.fatal THEN [st EXCEPT !.fatal = TRUE]
       ELSE IF st.exitCode = bailExitCode THEN [st EXCEPT !.out = @ \o pr.out]
       ELSE [switchOnType(st, memo[text].line) EXCEPT !.out = @ \o pr.out]

loopBody(st, text, cmap, opts) ==
    LET pr == cprintln(text, memo[text].line.Type, cmap, opts)
    IN IF pr.fatal THEN [st EXCEPT !.fatal = TRUE]
       ELSE [switchOnType(st, memo[text].line) EXCEPT !.out = @ \o pr.out]

\* The run state runCLI starts its loop with.
initialState ==
    [planLast |-> Int64(0), testnum |-> Int64(0), failures |-> <<>>,
     exitCode |-> 0, out |-> <<>>, fatal |-> FALSE]

(***************************************************************************)
(* The run: runCLI opens the input, builds the colour map, reads the input *)
(* line by line until the scanner has no more (at the end of the input, or *)
(* at a read error, which it does not tell apart), then calls printAppends *)
(* and returns its exit code.                                              *)
(***************************************************************************)
\* input is the lines read so far, scanErr whether scanner.Err() is set;
\* the others are runCLI's locals and its position (pc).  The lines the
\* input can hold are those of the table memo.
VARIABLES opts, cmap, input, scanErr, planLast, testnum, failures, exitCode,
          out, pc

vars ==
    <<memo, opts, cmap, input, scanErr, planLast, testnum, failures, exitCode,
      out, pc>>

runState ==
    [planLast |-> planLast, testnum |-> testnum, failures |-> failures,
     exitCode |-> exitCode, out |-> out, fatal |-> pc = "fatal"]

\* The state runCLI is called in, for a table of input lines and the options.
InitWith(table, o) ==
    /\ memo = table
    /\ opts = o
    /\ cmap = <<>>
    /\ input = <<>>
    /\ scanErr = FALSE
    /\ planLast = initialState.planLast
    /\ testnum = initialState.testnum
    /\ failures = initialState.failures
    /\ exitCode = initialState.exitCode
    /\ out = initialState.out
    /\ pc = "open"

Init == \E o \in options : InitWith(MemoTable, o)

\* os.Open fails: log.Fatal.
OpenFail ==
    /\ pc = "open"
    /\ pc' = "fatal"
    /\ UNCHANGED <<memo, opts, cmap, input, scanErr, planLast, testnum,
                   failures, exitCode, out>>

\* The input is open (the file, or stdin): getColourMap.
Setup ==
    /\ pc = "open"
    /\ cmap' = getColourMap(opts)
    /\ pc' = IF getColourMapFatal(opts) THEN "fatal" ELSE "scan"
    /\ UNCHANGED <<memo, opts, input, scanErr, planLast, testnum, failures,
                   exitCode, out>>

\* scanner.Scan() returns a line: one pass of the loop.
ScanLine(text) ==
    /\ pc = "scan"
    /\ Len(input) < MaxLines
    /\ LET st == loopBody(runState, text, cmap, opts)
       IN /\ planLast' = st.planLast
          /\ testnum' = st.testnum
          /\ failures' = st.failures
          /\ exitCode' = st.exitCode
          /\ out' = st.out
          /\ pc' = IF st.fatal THEN "fatal" ELSE "scan"
    /\ input' = Append(input, text)
    /\ UNCHANGED <<memo, opts, cmap, scanErr>>

\* A bug: the loop does not end.
FinalizeNever == UNCHANGED vars

\* What follows the loop: printAppends, and runCLI returns its exit code.
Finalize ==
    /\ LET r == printAppends(failures, testnum, planLast, exitCode, cmap, opts)
       IN /\ exitCode' = r.exitCode
          /\ out' = out \o r.out
    /\ pc' = "done"
    /\ UNCHANGED <<memo, opts, cmap, input, planLast, testnum, failures>>

\* scanner.Scan() returns false at the end of the input.
EndOfStream ==
    /\ pc = "scan"
    /\ UNCHANGED scanErr
    /\ Finalize

\* scanner.Scan() returns false because a read failed (or a line is too
\* long for the scanner): scanner.Err() is set, and nothing reads it.
ReadError ==
    /\ pc = "scan"
    /\ scanErr' = TRUE
    /\ Finalize

Next ==
    \/ OpenFail
    \/ Setup
    \/ \E text \in DOMAIN memo : ScanLine(text)
    \/ EndOfStream
    \/ ReadError

Spec == Init /\ [][Next]_vars

(***************************************************************************)
(* The classifier on lines at large: the input holds one line, any of      *)
(* ParseInputs (a start of one of the line forms, then up to MaxTail       *)
(* characters), any number of times.                                       *)
(***************************************************************************)
MaxTail == 2

TailChars == {" ", TAB, "U+2003", "0", "1", "#", "x"}

Tails == UNION {[1..n -> TailChars] : n \in 0..MaxTail}

Prefixes ==
    {<<>>, sOk, sNotOk, <<"1", ".", ".">>, <<"#">>, lnBail,
     SubSeq(lnVersion, 1, 12), sOk \o <<" ", "x">>, <<"1", "x">>}

ParseInputs == {p \o t : p \in Prefixes, t \in Tails}

InitParse ==
    \E text \in ParseInputs :
      /\ memo = text :> memoOf(text)
      /\ \E o \in options : InitWith(memo, o)

SpecParse == InitParse /\ [][Next]_vars

(***************************************************************************)
(* Runs with colour options: -O and -B are given any of Descriptors (the   *)
(* empty one is the option not given), the input holds three lines.        *)
(***************************************************************************)
Descriptors ==
    {<<>>, <<"b", "l", "u", "e">>,
     <<" ", "b", "l", "u", "e">>,
     <<"b", "o", "l", "d", " ", "c", "6", "0">>,
     <<"b", "l", "u", "e", " ", "b", "o", "l", "d">>,
     <<"#", "c", "9", "0">>,
     <<"c", "c", "9", "9", "0", "0">>,
     <<"p", "u", "r", "p", "l", "e">>,
     <<"#", "c", "9">>,
     <<"r", "e", "d", " ", "b", "l", "u", "e">>,
     <<"b", "o", "l", "d">>,
     <<"r", "e", "d", " ">>}

colourOptions ==
    [Failures : {FALSE}, Glyphs : {FALSE}, Summary : {TRUE},
     CVersion : {<<>>}, CPlan : {<<>>}, COk : Descriptors, CFail : {<<>>},
     CDiag : {<<>>}, CBail : Descriptors]

ColourTable == [text \in {lnOk, lnNotOk, lnBail} |-> MemoTable[text]]

InitColour == \E o \in colourOptions : InitWith(ColourTable, o)

SpecColour == InitColour /\ [][Next]_vars

(***************************************************************************)
(* The run as a process that keeps running: runCLI is sequential code, so  *)
(* while it has a step to take it takes one (the scanner returns a line,   *)
(* or returns false at the end of a finite input).  The input holds three  *)
(* lines.                                                                  *)
(***************************************************************************)
InitLive == \E o \in options : InitWith(ColourTable, o)

SpecLive == InitLive /\ [][Next]_vars /\ WF_vars(Next)

(***************************************************************************)
(* Runs that count up to the end of the range of an int: the input holds   *)
(* test lines with the greatest number an int holds, with a number too     *)
(* great for one, with the number 0 and with no number; -s is given or     *)
(* not.                                                                    *)
(***************************************************************************)
lnOkMax == sOk \o <<" ">> \o Itoa(MaxInt64)
lnNotOkOver == sNotOk \o <<" ">> \o Itoa([neg |-> FALSE, mag |-> Two63])
lnOk0 == <<"o", "k", " ", "0">>

WideTable ==
    lnOkMax :> memoOf(lnOkMax)
    @@ lnNotOkOver :> memoOf(lnNotOkOver)
    @@ lnOk0 :> memoOf(lnOk0)
    @@ lnNotOk :> memoOf(lnNotOk)

InitWide ==
    \E o \in [Failures : {FALSE}, Glyphs : {FALSE}, Summary : BOOLEAN,
              CVersion : {<<>>}, CPlan : {<<>>}, COk : {<<>>},
              CFail : {<<>>}, CDiag : {<<>>}, CBail : {<<>>}] :
      InitWith(WideTable, o)

SpecWide == InitWide /\ [][Next]_vars

(***************************************************************************)
(* Properties.  What they are stated in: the type of an input line, the    *)
(* lines of the input of a type, the calls of the output on a printer, and *)
(* the run of the loop over a sequence of lines under other options.       *)
(***************************************************************************)
\* The integer of the int x.
IntValue(x) == IF x.neg THEN -NatValue(x.mag) ELSE NatValue(x.mag)

KindOf(text) == memo[text].line.Type

HasKind(k) == \E i \in DOMAIN input : KindOf(input[i]) = k

IsTest(text) == KindOf(text) \in {tapTestOK, tapTestNOK}

NumTests == Cardinality({i \in DOMAIN input : IsTest(input[i])})

\* The last Plan line read: its index in input, 0 when there is none.
LastPlanIndex ==
    IF HasKind(tapPlan)
    THEN CHOOSE i \in DOMAIN input :
           /\ KindOf(input[i]) = tapPlan
           /\ \A j \in DOMAIN input : KindOf(input[j]) = tapPlan => j <= i
    ELSE 0

OfKind(k) == SelectSeq(out, LAMBDA e : e.kind = k)

StreamLines == SelectSeq(out, LAMBDA e : e.fmt = "Println")

GlyphArg == IF opts.Glyphs THEN <<glyphNOK, " ">> ELSE <<>>

Done == pc = "done"

RECURSIVE RunLoop(_, _)
RunLoop(lines, o) ==
    IF lines = <<>> THEN initialState
    ELSE loopBody(RunLoop(SubSeq(lines, 1, Len(lines) - 1), o),
                  lines[Len(lines)], cmap, o)

RunExit(st, o) ==
    printAppends(st.failures, st.testnum, st.planLast, st.exitCode,
                 cmap, o).exitCode

\* C1: the exit code runCLI returns is 5 if the stream has a Bail line;
\* otherwise 4 if at end of stream testnum = 0 or testnum # planLast;
\* otherwise 3 if it has a TestNOK line; otherwise 0.
C1_ExitCodeTable ==
    Done =>
      exitCode = IF HasKind(tapBail) THEN 5
                 ELSE IF testnum = Int64(0) \/ testnum # planLast THEN 4
                 ELSE IF HasKind(tapTestNOK) THEN 3
                 ELSE 0

\* A run with a failed test, no bail and the plan met returns 3.
C1_Witness ==
    /\ Done /\ exitCode = 3 /\ HasKind(tapTestNOK) /\ ~HasKind(tapBail)
    /\ testnum = planLast

\* C2: exitCode never decreases: not from one line to the next, and not in
\* the finalization at end of stream.
C2_ExitCodeMonotonic == [][exitCode' >= exitCode]_vars

\* A run whose exit code rose twice while lines were read (a failed test,
\* then a bail).
C2_Witness ==
    /\ pc = "scan" /\ exitCode = 5 /\ Len(input) >= 2
    /\ KindOf(input[1]) = tapTestNOK /\ KindOf(input[2]) = tapBail

\* C3: a stream with both a TestNOK line and a Bail line, in either order,
\* ends with exit code 5.
C3_BailBeatsFail ==
    (Done /\ HasKind(tapTestNOK) /\ HasKind(tapBail)) => exitCode = 5

\* The bail comes first, the failed test after it.
C3_Witness ==
    /\ Done /\ Len(input) = 3
    /\ KindOf(input[1]) = tapBail /\ KindOf(input[3]) = tapTestNOK

\* C4: exit code 0 means the stream had no TestNOK line, no Bail line, and
\* as many test lines as the last value of its final Plan line, at least 1.
C4_ZeroMeansAllPlannedPassed ==
    (Done /\ exitCode = 0) =>
      /\ ~HasKind(tapTestNOK)
      /\ ~HasKind(tapBail)
      /\ LastPlanIndex > 0
      /\ Positive(memo[input[LastPlanIndex]].line.PlanLast)
      /\ Int64(NumTests) = memo[input[LastPlanIndex]].line.PlanLast

\* C5: a stream whose final Plan line declares 1..N and that has k test
\* lines, 1 <= k < N, ends with exit code >= 4 and the plan-failure line
\* "only k/N planned tests seen".
C5_FewerTestsThanPlanned ==
    (/\ Done
     /\ LastPlanIndex > 0
     /\ memo[input[LastPlanIndex]].line.PlanFirst = Int64(1)
     /\ 1 <= NumTests
     /\ NumTests < IntValue(memo[input[LastPlanIndex]].line.PlanLast))
    => /\ exitCode >= 4
       /\ \E i \in DOMAIN out :
            /\ out[i].kind = tapPlanNOK
            /\ out[i].fmt = fmtOnlySeen
            /\ out[i].args =
                 <<GlyphArg, Itoa(Int64(NumTests)),
                   Itoa(memo[input[LastPlanIndex]].line.PlanLast)>>

\* C6, as claimed: a stream with no test line ends with exit code 4 and the
\* plan-failure line "no tests seen".
C6_NoTestsExitsFour ==
    (Done /\ NumTests = 0) =>
      /\ exitCode = 4
      /\ \E i \in DOMAIN out :
           out[i].kind = tapPlanNOK /\ out[i].fmt = fmtNoTests

\* C6, amended: a stream with no test line ends with the plan-failure line
\* "no tests seen", and with exit code 4 if it has no Bail line, 5 if it has.
C6_NoTestsExitsFourOrBail ==
    (Done /\ NumTests = 0) =>
      /\ exitCode = IF HasKind(tapBail) THEN 5 ELSE 4
      /\ \E i \in DOMAIN out :
           /\ out[i].kind = tapPlanNOK
           /\ out[i].fmt = fmtNoTests
           /\ out[i].args = <<GlyphArg>>

\* A stream of a plan, a diagnostic and a bail, and no test.
C6_Witness ==
    /\ Done /\ NumTests = 0 /\ Len(input) = 3
    /\ HasKind(tapPlan) /\ HasKind(tapBail)

\* C7: a stream with no Plan line ends with a plan-failure line and exit
\* code >= 4, 4 when it has no Bail line, however many test lines it has and
\* however they are numbered.
C7_NoPlanIsMismatch ==
    (Done /\ ~HasKind(tapPlan)) =>
      /\ Len(OfKind(tapPlanNOK)) = 1
      /\ exitCode >= 4
      /\ ~HasKind(tapBail) => exitCode = 4

\* No plan, tests with and without a number.
C7_Witness ==
    /\ Done /\ ~HasKind(tapPlan) /\ ~HasKind(tapBail)
    /\ lnOk2 \in {input[i] : i \in DOMAIN input}
    /\ lnNotOk \in {input[i] : i \in DOMAIN input}

\* C8: the options -f, -g and -s do not change the run state: for the lines
\* read, the run under any of the 8 option values reaches the same testnum,
\* failures and planLast, and at end of stream the same exit code.
C8_OptionsDoNotChangeState ==
    \A o \in options :
      LET st == RunLoop(input, o)
      IN /\ st.testnum = testnum
         /\ st.failures = failures
         /\ st.planLast = planLast
         /\ Done => RunExit(st, o) = exitCode

\* A run with -f that suppressed a success and printed a failure.
C8_Witness ==
    /\ Done /\ opts.Failures /\ opts.Summary
    /\ HasKind(tapTestOK) /\ HasKind(tapTestNOK) /\ HasKind(tapPlan)

\* C9: with -f the stream lines printed are the input lines that are not
\* TestOK, each once and in input order (each as its own type, and with
\* glyphs off as its own text); the TestOK lines not printed still count.
NotOkInput == SelectSeq(input, LAMBDA t : KindOf(t) # tapTestOK)

C9_SuppressOmitsOnlyTestOk ==
    opts.Failures =>
      /\ Len(StreamLines) = Len(NotOkInput)
      /\ \A i \in DOMAIN StreamLines :
           /\ StreamLines[i].kind = KindOf(NotOkInput[i])
           /\ StreamLines[i].args =
                <<IF opts.Glyphs THEN memo[NotOkInput[i]].glyph
                  ELSE NotOkInput[i]>>
      /\ testnum = RunLoop(input, [opts EXCEPT !.Failures = FALSE]).testnum

\* With -f: a success between two other lines, not printed and counted.
C9_Witness ==
    /\ opts.Failures /\ Len(input) = 3 /\ KindOf(input[2]) = tapTestOK
    /\ KindOf(input[1]) = tapPlan /\ KindOf(input[3]) = tapTestNOK
    /\ Len(StreamLines) = 2 /\ testnum = Int64(2)

\* C10: at end of stream a plan-failure line is printed iff testnum = 0 or
\* testnum # planLast, with the summary on or off; it is "no tests seen" iff
\* testnum = 0, else "only X/Y planned tests seen" with X = testnum and
\* Y = planLast; there is one such line at most.
C10_PlanFailureLine ==
    Done =>
      /\ Len(OfKind(tapPlanNOK)) =
           IF testnum = Int64(0) \/ testnum # planLast THEN 1 ELSE 0
      /\ \A i \in DOMAIN out :
           out[i].kind = tapPlanNOK =>
             /\ out[i].fmt = IF testnum = Int64(0) THEN fmtNoTests
                             ELSE fmtOnlySeen
             /\ out[i].args = IF testnum = Int64(0) THEN <<GlyphArg>>
                              ELSE <<GlyphArg, Itoa(testnum), Itoa(planLast)>>

\* The summary is off, tests were seen, and fewer than planned.
C10_Witness ==
    /\ Done /\ ~opts.Summary /\ testnum = Int64(1) /\ planLast = Int64(2)
    /\ Len(OfKind(tapPlanNOK)) = 1

\* C11: at end of stream, with the summary off there is no summary line;
\* with it on and failures not empty there are the two lines of the failure
\* summary, the failed numbers as a comma-separated list in the order of
\* failures, then "Failed k/n tests" with k = Len(failures), n = testnum;
\* with it on, no failure and no plan mismatch there is the one line
\* "Passed n/n tests, 100% ok"; otherwise there is none.
SummaryLines ==
    SelectSeq(out, LAMBDA e : e.kind \in {tapSummaryOK, tapSummaryNOK})

OkGlyphArg == IF opts.Glyphs THEN <<glyphOK, " ">> ELSE <<>>

RECURSIVE CommaList(_)
CommaList(nums) ==
    IF nums = <<>> THEN <<>>
    ELSE Itoa(Head(nums))
           \o (IF Len(nums) > 1 THEN <<",", " ">> ELSE <<>>)
           \o CommaList(Tail(nums))

C11_SummarySelection ==
    Done =>
      IF ~opts.Summary THEN SummaryLines = <<>>
      ELSE IF failures # <<>>
      THEN /\ Len(SummaryLines) = 2
           /\ SummaryLines[1].kind = tapSummaryNOK
           /\ SummaryLines[1].fmt = "%sFAILED test%s: %s\n"
           /\ SummaryLines[1].args[3] = CommaList(failures)
           /\ SummaryLines[2].kind = tapSummaryNOK
           /\ SummaryLines[2].fmt = "%sFailed %d/%d tests, %0.02f%% ok\n"
           /\ SummaryLines[2].args[2] = Itoa(Int64(Len(failures)))
           /\ SummaryLines[2].args[3] = Itoa(testnum)
      ELSE IF ~(testnum = Int64(0) \/ testnum # planLast)
      THEN SummaryLines =
             <<[kind |-> tapSummaryOK, style |-> cmap[tapSummaryOK],
                fmt |-> "%sPassed %d/%d tests, 100%% ok\n",
                args |-> <<OkGlyphArg, Itoa(testnum), Itoa(testnum)>>]>>
      ELSE SummaryLines = <<>>

\* The summary is on and two tests failed, the second one first: the list
\* is "2, 1", and the plan is met.
C11_Witness ==
    /\ Done /\ opts.Summary /\ failures = <<Int64(2), Int64(1)>>
    /\ Len(SummaryLines) = 2
    /\ SummaryLines[1].args[3] = <<"2", ",", " ", "1">>

\* C12, as claimed: after a test line with a number n >= 0 written after
\* `ok`/`not ok`, testnum is n; after a test line with no number, testnum
\* is one more than before.
LastRead == input'[Len(input')]

ReadsTest == input' # input /\ IsTest(LastRead)

\* The number one more than x.
PlusOne(x) ==
    IF x.neg THEN [neg |-> x.mag # <<1>>, mag |-> NatDiff(x.mag, <<1>>)]
    ELSE [neg |-> FALSE, mag |-> NatSum(x.mag, <<1>>)]

C12_ExplicitNumberAdopted ==
    [][ReadsTest =>
         IF memo[LastRead].testno # <<>>
         THEN ~Atoi(memo[LastRead].testno).err
                => testnum' = Atoi(memo[LastRead].testno).i
         ELSE testnum' = PlusOne(testnum)]_vars

\* C12, amended: after a test line with a number n >= 1 that fits a 64-bit
\* int, testnum is n; after any other test line (with no number, with the
\* number 0, or with a number too great for an int) testnum is one more
\* than before, and -2^63 when it was 2^63 - 1.
MinInt64 == [neg |-> TRUE, mag |-> Two63]

C12_PositiveNumberAdopted ==
    [][ReadsTest =>
         IF /\ memo[LastRead].testno # <<>>
            /\ ~Atoi(memo[LastRead].testno).err
            /\ Atoi(memo[LastRead].testno).i # Int64(0)
         THEN testnum' = Atoi(memo[LastRead].testno).i
         ELSE testnum' = IF testnum = MaxInt64 THEN MinInt64
                         ELSE PlusOne(testnum)]_vars

\* The greatest number, then `ok 0` and a number too great: testnum went
\* from 2^63 - 1 to -2^63, and then to -2^63 + 1.
C12_Witness ==
    /\ input = <<lnOkMax, lnOk0, lnNotOkOver>>
    /\ testnum = [neg |-> TRUE, mag |-> MaxInt64.mag]
    /\ failures = <<testnum>>

\* C13: planLast is the last value of the last Plan line read (0 when none
\* was read), wherever the Plan lines are; at end of stream the plan-failure
\* line is there iff testnum is 0 or differs from that value, which is the
\* one the line shows.
LastPlanValue ==
    IF LastPlanIndex = 0 THEN Int64(0)
    ELSE memo[input[LastPlanIndex]].line.PlanLast

C13_LastPlanCounts ==
    /\ planLast = LastPlanValue
    /\ Done =>
         /\ Len(OfKind(tapPlanNOK)) =
              IF testnum = Int64(0) \/ testnum # LastPlanValue THEN 1 ELSE 0
         /\ \A i \in DOMAIN out :
              (out[i].kind = tapPlanNOK /\ testnum # Int64(0))
                => out[i].args[3] = Itoa(LastPlanValue)

\* Two Plan lines, one before and one after the tests; the last one is 0..0.
C13_Witness ==
    /\ Done /\ input = <<lnPlan2, lnOk2, lnPlan0>>
    /\ planLast = Int64(0) /\ exitCode = 4

\* C14: failures is the sequence of the values testnum had right after each
\* TestNOK line read so far, in the order read; a TestOK line adds none.
Indices == [i \in 1..Len(input) |-> i]

NokIndices == SelectSeq(Indices, LAMBDA i : KindOf(input[i]) = tapTestNOK)

TestnumAfter(i) == RunLoop(SubSeq(input, 1, i), opts).testnum

C14_FailuresAreNotOkNumbers ==
    /\ Len(failures) = Len(NokIndices)
    /\ \A k \in DOMAIN NokIndices : failures[k] = TestnumAfter(NokIndices[k])

\* A failure, a success, a failure with a number that was seen before.
C14_Witness ==
    /\ input = <<lnNotOk, lnOk2, lnNotOk1>>
    /\ failures = <<Int64(1), Int64(1)>> /\ testnum = Int64(1)

\* C15: reading a Version, Diagnostic or Unknown line leaves testnum,
\* failures, planLast and exitCode as they were.
C15_OtherLinesChangeNothing ==
    [][(input' # input
          /\ KindOf(LastRead) \in {tapVersion, tapDiagnostic, tapUnknown})
         => UNCHANGED <<testnum, failures, planLast, exitCode>>]_vars

\* A diagnostic read after a plan and a failure.
C15_Witness ==
    /\ input = <<lnPlan2, lnNotOk, lnDiag>>
    /\ planLast = Int64(2) /\ testnum = Int64(1)
    /\ failures = <<Int64(1)>> /\ exitCode = 3

\* C16, as claimed: a stream with the plan 0..0, no test line and no Bail
\* line ends with exit code 0 and no plan-failure line.
ZeroPlanNoTests ==
    /\ HasKind(tapPlan)
    /\ \A i \in DOMAIN input : KindOf(input[i]) = tapPlan => input[i] = lnPlan0
    /\ NumTests = 0
    /\ ~HasKind(tapBail)

C16_ZeroPlanAccepted ==
    (Done /\ ZeroPlanNoTests) => (exitCode = 0 /\ OfKind(tapPlanNOK) = <<>>)

\* C16, amended: a stream with the plan 0..0, no test line and no Bail line
\* ends as any stream with no test line does: with the plan-failure line
\* "Failed plan: no tests seen" and exit code 4.
C16_ZeroPlanIsPlanFailure ==
    (Done /\ ZeroPlanNoTests) =>
      /\ exitCode = planFailExitCode
      /\ OfKind(tapPlanNOK) = <<Printf(cmap, tapPlanNOK, fmtNoTests, <<GlyphArg>>)>>

\* A version line, the plan 0..0, and the end of the stream.
C16_Witness ==
    /\ Done /\ input = <<lnVersion, lnPlan0>> /\ exitCode = 4
    /\ Len(OfKind(tapPlanNOK)) = 1

\* C17: when a colour option given cannot be resolved (an unknown name, a
\* malformed hex string, more than one colour), the run stops before it
\* reads a line: no line of the stream is printed and the run does not end
\* with an exit code of its own.
BadColour(d) == d # <<>> /\ parseColour(d).err

UserColourBad ==
    \E d \in {opts.CVersion, opts.CPlan, opts.COk, opts.CFail, opts.CDiag,
              opts.CBail} : BadColour(d)

C17_BadColourStopsRun ==
    UserColourBad => (StreamLines = <<>> /\ pc # "done")

\* C18: when the input cannot be opened or a read of it fails, the run ends
\* in a failure: printAppends is not run, so there is no summary line, no
\* plan-failure line and no exit code computed from the lines read.
C18_ReadFailureIsFatal ==
    scanErr =>
      /\ pc # "done"
      /\ SummaryLines = <<>>
      /\ OfKind(tapPlanNOK) = <<>>

\* C19: parseLine gives every line one of the seven kinds Unknown, Version,
\* Plan, TestOK, TestNOK, Diagnostic, Bail; the empty line and a line none
\* of the five patterns matches are Unknown; an Unknown line is printed as
\* it is, and no line read ends the run.
SevenKinds ==
    {tapUnknown, tapVersion, tapPlan, tapTestOK, tapTestNOK, tapDiagnostic,
     tapBail}

MatchesNone(text) ==
    \A r \in {reVersion, rePlan, reTest, reDiagnostic, reBail} :
      ~MatchString(r, text)

UnknownInput == SelectSeq(input, LAMBDA t : KindOf(t) = tapUnknown)

C19_ClassificationIsTotal ==
    /\ \A text \in DOMAIN memo : KindOf(text) \in SevenKinds
    /\ pc = "open" =>
         \A text \in DOMAIN memo :
           (text = <<>> \/ MatchesNone(text)) => KindOf(text) = tapUnknown
    /\ pc = "fatal" => input = <<>>
    /\ OfKind(tapUnknown) =
         [i \in 1..Len(UnknownInput) |->
            Println(cmap, tapUnknown, UnknownInput[i])]

\* `ok`, a tab and a number: no pattern matches it; read twice and printed
\* twice, and the run goes on.
C19_Witness ==
    /\ pc = "scan" /\ input = <<<<"o", "k", TAB, "1">>, <<"o", "k", TAB, "1">>>>
    /\ Len(OfKind(tapUnknown)) = 2 /\ testnum = Int64(0)

\* C20: at end of stream Len(failures) <= testnum, so that the pass figure
\* of the failure summary, (testnum - Len(failures)) * 100 / testnum, is
\* between 0 and 100.
C20_FailuresWithinCounter ==
    Done => Len(failures) <= IntValue(testnum)

\* C21: the line "Passed N/N tests, 100% ok" is printed only in runs that
\* return 0.
C21_PassOnlyWithExitZero ==
    (Done /\ OfKind(tapSummaryOK) # <<>>) => exitCode = 0

\* C22: when failures is not empty, and after any test line was read,
\* testnum is at least 1, so that printSummary does not divide by 0.
C22_TestnumPositive ==
    (failures # <<>> \/ NumTests > 0) => Positive(testnum)

\* C23: a line that begins with `not ok` and then ends or goes on with white
\* space is TestNOK, one that begins with `ok` and then ends or goes on with
\* white space is TestOK, whatever follows.
BeginsWithToken(text, tok) ==
    /\ Len(text) >= Len(tok)
    /\ SubSeq(text, 1, Len(tok)) = tok
    /\ Len(text) > Len(tok) => text[Len(tok) + 1] \in ClassS \cup ClassZ

C23_TestLineRecognition ==
    \A text \in DOMAIN memo :
      /\ BeginsWithToken(text, sNotOk) => KindOf(text) = tapTestNOK
      /\ BeginsWithToken(text, sOk) => KindOf(text) = tapTestOK

\* C24: a line is a Plan line iff it is digits, two dots, digits, then
\* possibly `#` and a reason; its PlanFirst and PlanLast are the values of
\* the digits, and those of any other line are 0.
rePlanDots ==
    Cat(<<Bol, Grp(1, Plus(Chr(Digit))), Lit("."), Lit("."),
          Grp(2, Plus(Chr(Digit))), Star(Chr(ClassS)),
          Opt(Cat(<<Lit("#"), Star(Chr(ClassS)), Grp(3, LazyStar(AnyChar)),
                    Star(Chr(ClassS))>>)),
          Eol>>)

C24_PlanLineRecognition ==
    pc = "open" =>
      \A text \in DOMAIN memo :
        LET m == FindStringSubmatch(rePlanDots, text)
        IN /\ KindOf(text) = tapPlan <=> m.ok
           /\ m.ok => /\ memo[text].line.PlanFirst = FieldOf(m.caps[1])
                      /\ memo[text].line.PlanLast = FieldOf(m.caps[2])
           /\ KindOf(text) # tapPlan =>
                /\ memo[text].line.PlanFirst = Int64(0)
                /\ memo[text].line.PlanLast = Int64(0)

\* C25: testnum never decreases from one line to the next.
C25_TestnumNeverDecreases ==
    [][IntValue(testnum') >= IntValue(testnum)]_vars

\* C26: when the plan-failure line "only X/Y planned tests seen" is
\* printed, 1 <= X < Y.
C26_OnlySeenMeansFewer ==
    \A i \in DOMAIN out :
      (out[i].kind = tapPlanNOK /\ out[i].fmt = fmtOnlySeen) =>
        /\ out[i].args[2] = Itoa(testnum) /\ out[i].args[3] = Itoa(planLast)
        /\ 1 <= IntValue(testnum) /\ IntValue(testnum) < IntValue(planLast)

\* C27: the lines after a Bail line are classified, printed and counted as
\* they are without it: testnum, failures, planLast and the lines printed
\* for the other lines are those of the run over the input with its Bail
\* lines left out; the run is not ended by the line, and with a Bail line
\* read its exit code is 5.
NoBailInput == SelectSeq(input, LAMBDA t : KindOf(t) # tapBail)

C27_BailDoesNotStop ==
    LET st == RunLoop(NoBailInput, opts)
    IN /\ testnum = st.testnum
       /\ failures = st.failures
       /\ planLast = st.planLast
       /\ SelectSeq(StreamLines, LAMBDA e : e.kind # tapBail) = st.out
       /\ HasKind(tapBail) => (pc \in {"scan", "done"} /\ exitCode = 5)

\* A Bail line first, then a plan and a failure, and the end of the stream.
C27_Witness ==
    /\ Done /\ input = <<lnBail, lnPlan2, lnNotOk>>
    /\ planLast = Int64(2) /\ testnum = Int64(1) /\ failures = <<Int64(1)>>
    /\ Len(OfKind(tapPlanNOK)) = 1

\* C28: while lines are read exitCode is 0, 3 or 5; it is 4 only after
\* printAppends; what runCLI returns is 0, 3, 4 or 5.
C28_ExitCodeValues ==
    /\ pc \in {"open", "scan", "fatal"} => exitCode \in {0, 3, 5}
    /\ Done => exitCode \in {0, 3, 4, 5}

\* A failure and a Bail line were read, in the two orders; the stream ended
\* with a plan failure after a failure alone.
C28_Witness ==
    \/ pc = "scan" /\ input = <<lnNotOk, lnBail, lnNotOk>> /\ exitCode = 5
    \/ Done /\ input = <<lnNotOk>> /\ exitCode = 4

\* C29: the lines of the stream are printed before the summary and the
\* plan-failure line, the summary before the plan-failure line; the pass
\* line and the plan-failure line are never both printed; there are three
\* lines at most after those of the stream.
Appended == {tapSummaryOK, tapSummaryNOK, tapPlanNOK}

C29_AppendedOrder ==
    /\ \A i, j \in DOMAIN out :
         (out[i].kind \in Appended /\ out[j].kind \notin Appended) => j < i
    /\ \A i, j \in DOMAIN out :
         (out[i].kind = tapPlanNOK /\ out[j].kind \in Appended /\ i # j)
           => j < i
    /\ ~(OfKind(tapSummaryOK) # <<>> /\ OfKind(tapPlanNOK) # <<>>)
    /\ Len(SelectSeq(out, LAMBDA e : e.kind \in Appended)) <= 3
    /\ pc # "done" => SelectSeq(out, LAMBDA e : e.kind \in Appended) = <<>>

\* The failure summary and the plan-failure line, after three stream lines.
C29_Witness ==
    /\ Done /\ Len(out) = 6 /\ Len(StreamLines) = 3
    /\ out[4].kind = tapSummaryNOK /\ out[5].kind = tapSummaryNOK
    /\ out[6].kind = tapPlanNOK

\* C30: the lines are printed and counted one by one in the order read:
\* the state after a line is that of the loop run over the lines read so
\* far, whatever comes later, and without -f there is one stream line
\* printed for each line read, of its type and in its place.
C30_LineByLine ==
    /\ pc = "scan" => runState = RunLoop(input, opts)
    /\ ~opts.Failures =>
         StreamLines =
           [i \in 1..Len(input) |->
              Println(cmap, KindOf(input[i]),
                      IF opts.Glyphs THEN memo[input[i]].glyph
                      ELSE memo[input[i]].plain)]

\* A plan, a success and a failure, the summary off: three lines printed,
\* and the exit code is 3.
C30_Witness ==
    /\ Done /\ ~opts.Summary /\ ~opts.Failures
    /\ input = <<lnPlan2, lnOk, lnNotOk>>
    /\ Len(out) = 3 /\ exitCode = 3

\* C31: with glyphs on, a TestOK line is printed with its `ok` and the
\* separators after it replaced by the pass glyph and a space, a TestNOK
\* line with its `not ok` and the separators after it replaced by the fail
\* glyph and a space, a Bail line with the fail glyph and a space in front;
\* the other lines, and every line with glyphs off, are printed as they are.
RECURSIVE DropSeparators(_)
DropSeparators(text) ==
    IF text # <<>> /\ Head(text) \in ClassZ THEN DropSeparators(Tail(text))
    ELSE text

ExpectedText(text) ==
    IF ~opts.Glyphs THEN text
    ELSE CASE KindOf(text) = tapTestOK ->
                <<glyphOK, " ">>
                  \o DropSeparators(SubSeq(text, Len(sOk) + 1, Len(text)))
           [] KindOf(text) = tapTestNOK ->
                <<glyphNOK, " ">>
                  \o DropSeparators(SubSeq(text, Len(sNotOk) + 1, Len(text)))
           [] KindOf(text) = tapBail -> <<glyphNOK, " ">> \o text
           [] OTHER -> text

Shown == IF opts.Failures THEN NotOkInput ELSE input

C31_GlyphSubstitution ==
    /\ Len(StreamLines) = Len(Shown)
    /\ \A i \in DOMAIN StreamLines :
         /\ StreamLines[i].kind = KindOf(Shown[i])
         /\ StreamLines[i].args = <<ExpectedText(Shown[i])>>

\* With glyphs on: `not ok 1` is printed as the fail glyph, a space and 1.
C31_Witness ==
    /\ opts.Glyphs /\ Len(input) = 1
    /\ input[1] = sNotOk \o <<" ", "1">>
    /\ StreamLines = <<Println(cmap, tapTestNOK, <<glyphNOK, " ", "1">>)>>

\* C32: a Plan line changes planLast at most; a TestOK line testnum only; a
\* TestNOK line testnum, failures and exitCode only; a Bail line exitCode
\* at most.
C32_KindsTouchOwnFields ==
    [][input' # input =>
         /\ KindOf(LastRead) = tapPlan
              => UNCHANGED <<testnum, failures, exitCode>>
         /\ KindOf(LastRead) = tapTestOK
              => UNCHANGED <<planLast, failures, exitCode>>
         /\ KindOf(LastRead) = tapTestNOK => UNCHANGED planLast
         /\ KindOf(LastRead) = tapBail
              => UNCHANGED <<planLast, testnum, failures>>]_vars

\* A failure, then a plan, then a Bail line.
C32_Witness ==
    /\ input = <<lnNotOk, lnPlan2, lnBail>>
    /\ testnum = Int64(1) /\ failures = <<Int64(1)>>
    /\ planLast = Int64(2) /\ exitCode = 5

\* C33: the colour map getColourMap builds has a printer for each of the
\* ten line types, whatever the options; it is not changed after; and the
\* run is ended only when the input cannot be opened, never for a line type
\* with no printer.
C33_EveryKindHasStyle ==
    [][/\ (pc = "open" /\ pc' # "fatal") =>
            /\ DOMAIN cmap' = lineType
            /\ \A t \in lineType : ~cmap'[t].err
       /\ pc # "open" => cmap' = cmap
       /\ pc' = "fatal" => (pc = "open" /\ cmap' = <<>>)]_vars

\* -O purple: the run printed its three lines, the summary and ended.
C33_Witness ==
    /\ Done /\ opts.COk = <<"p", "u", "r", "p", "l", "e">>
    /\ Len(StreamLines) = 3 /\ DOMAIN cmap = lineType

\* C34: no line matches more than one of the five patterns, so that the
\* type parseLine returns is that of the one pattern that matches, in
\* whatever order they are tried.
PatternsMatching(text) ==
    {k \in {tapVersion, tapPlan, tapTestOK, tapDiagnostic, tapBail} :
       MatchString(CASE k = tapVersion -> reVersion
                     [] k = tapPlan -> rePlan
                     [] k = tapTestOK -> reTest
                     [] k = tapDiagnostic -> reDiagnostic
                     [] k = tapBail -> reBail,
                   text)}

\* The table of lines is the same under all options: the lines are looked
\* at under one of them.
C34_PatternsExclusive ==
    (pc = "open" /\ ~opts.Failures /\ ~opts.Glyphs /\ ~opts.Summary) =>
      \A text \in DOMAIN memo :
        LET ks == PatternsMatching(text)
        IN /\ Cardinality(ks) <= 1
           /\ \A k \in ks :
                KindOf(text) = k \/ (k = tapTestOK /\ KindOf(text) = tapTestNOK)

\* `ok #`: a test line with a `#` in it, which is no diagnostic.
C34_Witness ==
    /\ pc = "scan" /\ input = <<sOk \o <<" ", "#">>>>
    /\ testnum = Int64(1)

\* C35: the run of a finite input ends: once the input is open the run
\* reaches the end of runCLI; printAppends runs once, on the state the lines
\* read have left, and nothing follows it; each line read is added to the
\* lines read once.
C35_RunsToCompletion ==
    /\ (pc = "scan") ~> (pc = "done")
    /\ [][/\ pc # "done"
          /\ pc' = "done" =>
               /\ exitCode' = appendsExitCode(testnum, planLast, exitCode)
               /\ SubSeq(out', 1, Len(out)) = out
               /\ UNCHANGED <<input, testnum, failures, planLast>>
          /\ input' # input =>
               (Len(input') = Len(input) + 1
                  /\ SubSeq(input', 1, Len(input)) = input)]_vars

\* A run that read as many lines as the input holds, printed each and ended.
C35_Witness ==
    /\ Done /\ Len(input) = MaxLines /\ Len(StreamLines) = MaxLines
    /\ input[1] = lnNotOk /\ exitCode = 4

\* C36: parseColour accepts a colour string iff exactly one of its parts
\* between spaces is no modifier and that part is one of the ten colour
\* names or a hex string of 3 or 6 digits with or without a `#` in front.
IsHexColour(t) ==
    LET ds == IF t # <<>> /\ Head(t) = "#" THEN Tail(t) ELSE t
    IN Len(ds) \in {3, 6} /\ \A i \in DOMAIN ds : ds[i] \in HexDigit

ColourAccepted(c) ==
    LET others == SelectSeq(Split(c, " "),
                            LAMBDA t : t \notin DOMAIN colourOptMap)
    IN /\ Len(others) = 1
       /\ others[1] \in DOMAIN colourStringMap \/ IsHexColour(others[1])

C36_ParseColourAccepts ==
    pc = "open" =>
      \A c \in {opts.COk, opts.CBail} :
        parseColour(c).err <=> ~ColourAccepted(c)

=============================================================================
